---- MODULE Spec2Model ----
(***************************************************************************)
(* A model of the Porkbun DNS client (src/porkbun.py) and of the certbot   *)
(* authenticator hook built on it (src/certbot_auth.py).                   *)
(*                                                                         *)
(* Encoding of Python values:                                              *)
(*   str   the tuple of its characters, <<"w", ".", "x">>; '' is <<>>      *)
(*   None  the tuple <<"None">>                                            *)
(*   int   the tuple <<"int", "300">>                                      *)
(*   dict  the tuple of its <<key, value>> pairs in insertion order        *)
(* Decoded JSON responses and DNS records are TLA+ records.                *)
(***************************************************************************)
EXTENDS Integers, Sequences, FiniteSets, TLC

VARIABLES
    store,      \* the registrar's records of the domain, in the order it lists them
    nextId,     \* the id the registrar gives the next record it creates
    pc,         \* per client: the position of the running invocation
    op,         \* per client: the arguments of the running invocation
    listed,     \* per client: response['records'] of the invocation's list call
    idx,        \* per client: position of the for loop in listed
    responses,  \* per client: update_record's local list `responses`
    calls,      \* per client: the API calls the invocation issued so far
    result,     \* per client: how the invocation (process) ended
    ret,        \* per client: the value a library call returned
    before,     \* per client: the store as the invocation began
    runs,       \* per client: the number of invocations started
    default_data, \* per client process: the dict that is api's default `data={}`
    payload,    \* per client: the last dict a caller gave to api, after the call
    arg,        \* the arguments of a function applied on its own
    out         \* <<what that function returned>>, <<>> before it is called

vars == <<store, nextId, pc, op, listed, idx, responses, calls, result, ret,
          before, runs, default_data, payload, arg, out>>

----------------------------------------------------------------------------
(* Bounds of the model *)

\* the largest number of records in the initial store
MaxRecords == 2
\* the largest number of invocations one client makes in a row
MaxRuns == 2

----------------------------------------------------------------------------
(* Strings *)

LowerAlpha == <<"a","b","c","d","e","f","g","h","i","j","k","l","m",
                "n","o","p","q","r","s","t","u","v","w","x","y","z">>
UpperAlpha == <<"A","B","C","D","E","F","G","H","I","J","K","L","M",
                "N","O","P","Q","R","S","T","U","V","W","X","Y","Z">>

\* the lower-case letter of each upper-case letter, and the reverse
LowerTable == [ch \in {UpperAlpha[i] : i \in 1..Len(UpperAlpha)} |->
                  LowerAlpha[CHOOSE i \in 1..Len(UpperAlpha) : UpperAlpha[i] = ch]]
UpperTable == [ch \in {LowerAlpha[i] : i \in 1..Len(LowerAlpha)} |->
                  UpperAlpha[CHOOSE i \in 1..Len(LowerAlpha) : LowerAlpha[i] = ch]]

LowerChar(ch) == IF ch \in DOMAIN LowerTable THEN LowerTable[ch] ELSE ch

UpperChar(ch) == IF ch \in DOMAIN UpperTable THEN UpperTable[ch] ELSE ch

\* str.lower()
Lower(s) == [i \in 1..Len(s) |-> LowerChar(s[i])]
\* str.upper()
Upper(s) == [i \in 1..Len(s) |-> UpperChar(s[i])]

RECURSIVE LStrip(_, _)
LStrip(s, ch) == IF s # <<>> /\ Head(s) = ch THEN LStrip(Tail(s), ch) ELSE s

RECURSIVE RStrip(_, _)
RStrip(s, ch) ==
    IF s # <<>> /\ s[Len(s)] = ch THEN RStrip(SubSeq(s, 1, Len(s) - 1), ch) ELSE s

\* str.strip(ch)
Strip(s, ch) == RStrip(LStrip(s, ch), ch)

None == <<"None">>

\* _get_fqdn(subdomain, domain)
get_fqdn(subdomain, domain) == Strip(Lower(subdomain) \o <<".">> \o domain, ".")

----------------------------------------------------------------------------
(* Dicts *)

HasKey(d, k) == \E i \in 1..Len(d) : d[i][1] = k
Get(d, k) == d[CHOOSE i \in 1..Len(d) : d[i][1] = k][2]
DictKeys(d) == {d[i][1] : i \in 1..Len(d)}

\* d[k] = v
DictSet(d, k, v) ==
    IF HasKey(d, k)
    THEN [i \in 1..Len(d) |-> IF d[i][1] = k THEN <<k, v>> ELSE d[i]]
    ELSE Append(d, <<k, v>>)

\* a.update(b)
RECURSIVE DictUpdate(_, _)
DictUpdate(a, b) ==
    IF b = <<>> THEN a
    ELSE DictUpdate(DictSet(a, Head(b)[1], Head(b)[2]), Tail(b))

----------------------------------------------------------------------------
(* JSON *)

IsInt(v) == Len(v) = 2 /\ v[1] = "int"

\* json.dumps of one value
JsonValue(v) ==
    IF v = None THEN <<"null">>
    ELSE IF IsInt(v) THEN <<"number", v[2]>>
    ELSE <<"string", v>>

\* json.dumps of a dict: the members in the dict's order
json_dumps(d) == [i \in 1..Len(d) |-> <<d[i][1], JsonValue(d[i][2])>>]

\* the registrar's reading of one member of a request body
JsonDecode(t) ==
    IF t[1] = "null" THEN None
    ELSE IF t[1] = "number" THEN <<"int", t[2]>>
    ELSE t[2]

----------------------------------------------------------------------------
(* Authenticated transport: Porkbun.__authenticate_data, api_raw, api *)

\* self.__endpoint, self.__api_key, self.__secret_api_key
Endpoint == <<"h">>
ApiKey == <<"k">>
SecretApiKey == <<"s">>

\* __authenticate_data without line 99's filter: the payload's keys win
authenticate_data_payload_wins(data) ==
    DictUpdate(<< <<"endpoint", Endpoint>>, <<"apikey", ApiKey>>,
                  <<"secretapikey", SecretApiKey>> >>, data)

\* Porkbun.__authenticate_data
authenticate_data(data) ==
    LET authenticated_data == << <<"endpoint", Endpoint>>,
                                 <<"apikey", ApiKey>>,
                                 <<"secretapikey", SecretApiKey>> >>
        filtered_data == SelectSeq(data, LAMBDA p : ~HasKey(authenticated_data, p[1]))
    IN  DictUpdate(authenticated_data, filtered_data)

\* __authenticate_data with `data.update(...)` on its argument
authenticate_data_arg_updated(data) == authenticate_data(data)

\* the dict given to __authenticate_data, as the call leaves it: lines 94-103
\* assign to the locals authenticated_data and filtered_data only
authenticate_data_arg(data) == data

\* Porkbun.api_raw: the request it posts
api_raw(target, data) ==
    [url  |-> <<Endpoint>> \o target,
     body |-> json_dumps(authenticate_data(data))]

Raise(e) == [raised |-> TRUE, exc |-> e]
Return(v) == [raised |-> FALSE, value |-> v]

\* _err: logs and raises SystemExit
err == Raise("SystemExit")

\* Porkbun.api, from the response of the post on
api(response) ==
    IF response.raised THEN Raise("ConnectionError")
    ELSE IF response.status_code # 200 THEN err
    ELSE IF response.text.json = "invalid" THEN Raise("JSONDecodeError")
    ELSE IF response.text.json # "dict" THEN err
    ELSE Return(response.text.value)

----------------------------------------------------------------------------
(* The registrar: what a posted request is answered with *)

RegDomain == <<"x", ".", "y">>
DefaultTtl == <<"6", "0", "0">>

\* the answers a request can get
Outcomes == {"SUCCESS", "ERROR", "http", "nondict", "malformed", "transport"}

\* the name the registrar lists a created record under
RegName(name, domain) == IF name = <<>> THEN domain ELSE name \o <<".">> \o domain

HasId(st, id) == \E i \in 1..Len(st) : st[i].id = id

\* the registrar serves the request: the credentials, the domain and the id are its own
Serves(st, req) ==
    /\ HasKey(req.body, "apikey") /\ Get(req.body, "apikey") = <<"string", ApiKey>>
    /\ HasKey(req.body, "secretapikey")
    /\ Get(req.body, "secretapikey") = <<"string", SecretApiKey>>
    /\ req.url[3] = RegDomain
    /\ req.url[2] = "/dns/delete/" => HasId(st, req.url[5])

CreatedRecord(nid, req) ==
    [id      |-> nid,
     name    |-> RegName(JsonDecode(Get(req.body, "name")), req.url[3]),
     type    |-> JsonDecode(Get(req.body, "type")),
     content |-> JsonDecode(Get(req.body, "content")),
     ttl     |-> IF HasKey(req.body, "ttl")
                 THEN JsonDecode(Get(req.body, "ttl")) ELSE DefaultTtl]

\* the store after the request was answered with `outcome`
StoreAfter(st, nid, req, outcome) ==
    IF outcome # "SUCCESS" THEN st
    ELSE IF req.url[2] = "/dns/delete/"
         THEN SelectSeq(st, LAMBDA r : r.id # req.url[5])
    ELSE IF req.url[2] = "/dns/create/" THEN Append(st, CreatedRecord(nid, req))
    ELSE st

NextIdAfter(nid, req, outcome) ==
    IF outcome = "SUCCESS" /\ req.url[2] = "/dns/create/" THEN nid + 1 ELSE nid

\* the decoded body of a SUCCESS answer
SuccessBody(st, nid, req) ==
    IF req.url[2] = "/dns/retrieve/" THEN [status |-> "SUCCESS", records |-> st]
    ELSE IF req.url[2] = "/dns/create/" THEN [status |-> "SUCCESS", id |-> nid]
    ELSE [status |-> "SUCCESS"]

\* what requests.post gives for the request
HttpResponse(st, nid, req, outcome) ==
    CASE outcome = "transport" -> [raised |-> TRUE]
      [] outcome = "http"      -> [raised |-> FALSE, status_code |-> 503,
                                   text |-> [json |-> "invalid"]]
      [] outcome = "malformed" -> [raised |-> FALSE, status_code |-> 200,
                                   text |-> [json |-> "invalid"]]
      [] outcome = "nondict"   -> [raised |-> FALSE, status_code |-> 200,
                                   text |-> [json |-> "list"]]
      [] outcome = "ERROR"     -> [raised |-> FALSE, status_code |-> 200,
                                   text |-> [json |-> "dict",
                                             value |-> [status |-> "ERROR"]]]
      [] outcome = "SUCCESS"   -> [raised |-> FALSE, status_code |-> 200,
                                   text |-> [json |-> "dict",
                                             value |-> SuccessBody(st, nid, req)]]

----------------------------------------------------------------------------
(* Record reconciler: the requests of each operation and what it returns *)

T_A     == <<"A">>
T_AAAA  == <<"A", "A", "A", "A">>
T_ALIAS == <<"A", "L", "I", "A", "S">>
T_CNAME == <<"C", "N", "A", "M", "E">>
T_TXT   == <<"T", "X", "T">>

\* Porkbun.get_records, line 138: the call it makes
get_records_call(domain) ==
    [target |-> <<"/dns/retrieve/", domain>>, given |-> FALSE, data |-> <<>>]

\* get_records without the check of the status
get_records_unchecked(response) == response

\* Porkbun.get_records, lines 140-144: what it does with what api gave
get_records(response) ==
    IF response.raised THEN response
    ELSE IF response.value.status = "ERROR" THEN err
    ELSE response

\* create_record without line 194's filter: unset fields are sent as null
create_record_unfiltered(domain, name, type_, content, ttl, prio) ==
    [target |-> <<"/dns/create/", domain>>, given |-> TRUE,
     data   |-> << <<"name", name>>, <<"type", type_>>, <<"content", content>>,
                   <<"ttl", ttl>>, <<"prio", prio>> >>]

\* Porkbun.create_record: the call it makes; it returns what api gives
create_record(domain, name, type_, content, ttl, prio) ==
    LET data == << <<"name", name>>, <<"type", type_>>, <<"content", content>>,
                   <<"ttl", ttl>>, <<"prio", prio>> >>
    IN  [target |-> <<"/dns/create/", domain>>, given |-> TRUE,
         data   |-> SelectSeq(data, LAMBDA p : p[2] # None)]

\* the record type of an address: 'A' if ip.version == 4 else 'AAAA'
ip_type(ip) == IF ip.version = 4 THEN T_A ELSE T_AAAA

\* create_a_aaaa_record without line 203's lower()
create_a_aaaa_record_keeps_case(domain, ip, subdomain) ==
    create_record(Lower(domain), IF subdomain = None THEN <<>> ELSE subdomain,
                  ip_type(ip), ip.exploded, <<"int", "300">>, None)

\* Porkbun.create_a_aaaa_record: the call it makes; it returns what api gives
create_a_aaaa_record(domain, ip, subdomain) ==
    LET name == IF subdomain = None THEN <<>> ELSE Lower(subdomain)
        type_ == ip_type(ip)
        content == ip.exploded
    IN  create_record(Lower(domain), name, type_, content, <<"int", "300">>, None)

\* Porkbun.delete_record: the call it makes; it returns what api gives
delete_record(domain, id) ==
    [target |-> <<"/dns/delete/", domain, "/", id>>, given |-> FALSE, data |-> <<>>]

\* line 236 with 'A' in place of type_, as in the registrar's own script
a_aaaa_match_family_a(record, fqdn, type_) ==
    record.name = fqdn /\ record.type \in {T_A, T_ALIAS, T_CNAME}

\* line 236 with ALIAS left out of the list
a_aaaa_match_no_alias(record, fqdn, type_) ==
    record.name = fqdn /\ record.type \in {type_, T_CNAME}

\* line 236: the records delete_a_aaaa_record deletes
a_aaaa_match(record, fqdn, type_) ==
    record.name = fqdn /\ record.type \in {type_, T_ALIAS, T_CNAME}

\* line 256 without the test of the name
update_match_any_name(record, fqdn, type_) == record.type = type_

\* line 256: the record update_record deletes
update_match(record, fqdn, type_) ==
    record.name = fqdn /\ record.type = type_

\* the characters of the keys of search_records' query, lines 161-167
KeyChars ==
    [name    |-> <<"n", "a", "m", "e">>,
     type    |-> <<"t", "y", "p", "e">>,
     content |-> <<"c", "o", "n", "t", "e", "n", "t">>,
     ttl     |-> <<"t", "t", "l">>,
     prio    |-> <<"p", "r", "i", "o">>,
     notes   |-> <<"n", "o", "t", "e", "s">>]

\* Porkbun.search_records, lines 170-177: the two loops, from record i and the
\* k-th key of the query on. `for key, value in query` iterates over the keys of
\* the dict and unpacks each key, a str, into two names.
RECURSIVE search_loop(_, _, _, _, _)
search_loop(records, query, i, k, matching_records) ==
    IF i > Len(records) THEN Return(matching_records)
    ELSE IF k > Len(query) THEN search_loop(records, query, i + 1, 1, matching_records)
    ELSE LET chars == KeyChars[query[k][1]]
             record == records[i]
         IN  IF Len(chars) # 2 THEN Raise("ValueError")
             ELSE LET key == chars[1]
                      value == chars[2]
                  IN  IF key \notin DOMAIN record
                      THEN search_loop(records, query, i, k + 1, matching_records)
                      ELSE IF "key" \notin DOMAIN record THEN Raise("KeyError")
                      ELSE IF record["key"] # value
                      THEN search_loop(records, query, i, k + 1, matching_records)
                      ELSE search_loop(records, query, i, k + 1,
                                       Append(matching_records, record))

\* Porkbun.search_records, lines 161-179, on the record list it has
search_records(records, name, type_, content, ttl, prio, notes) ==
    LET query == << <<"name", name>>, <<"type", type_>>, <<"content", content>>,
                    <<"ttl", ttl>>, <<"prio", prio>>, <<"notes", notes>> >>
    IN  search_loop(records, SelectSeq(query, LAMBDA p : p[2] # None), 1, 1, <<>>)

----------------------------------------------------------------------------
(* Inputs *)

Clients == {1, 2}

Ips == {[version |-> 4, exploded |-> <<"1", ".", "2">>],
        [version |-> 6, exploded |-> <<"0", ":", "1">>]}
NoIp == [version |-> 0, exploded |-> <<>>]

AcmeName == <<"_", "a", "c", "m", "e", "-", "c", "h", "a", "l", "l", "e", "n", "g", "e">>
AcmeTtl == <<"1", "2", "0">>

\* the domain and the subdomain given together: all lower case and apex, or
\* mixed case
Targets == {<<RegDomain, None>>, <<<<"X", ".", "y">>, <<"W">>>>}

\* update_a_aaaa_record(domain, ip, subdomain), as called by main() in ddns mode
AddrOps ==
    {[kind |-> "addr", domain |-> t[1], name |-> t[2], type_ |-> <<>>,
      content |-> <<>>, ttl |-> None, prio |-> None, ip |-> ip, data |-> <<>>] :
        t \in Targets, ip \in Ips}

\* the domain and the type given together
UpdTargets == {<<RegDomain, T_A>>, <<<<"X", ".", "y">>, <<"t", "x", "t">>>>}

\* update_record(domain, name, type_, content, ttl, prio)
UpdOps ==
    {[kind |-> "upd", domain |-> t[1], name |-> <<"W">>, type_ |-> t[2],
      content |-> <<"n">>, ttl |-> ttl, prio |-> prio, ip |-> NoIp, data |-> <<>>] :
        t \in UpdTargets, ttl \in {None, AcmeTtl}, prio \in {None, <<"1", "0">>}}

\* certbot_auth.py: update_record(CERTBOT_DOMAIN, '_acme-challenge', 'TXT',
\* CERTBOT_VALIDATION, ttl='120')
AcmeOps ==
    {[kind |-> "acme", domain |-> d, name |-> AcmeName, type_ |-> T_TXT,
      content |-> <<"v">>, ttl |-> AcmeTtl, prio |-> None, ip |-> NoIp,
      data |-> <<>>] :
        d \in {RegDomain, <<"X", ".", "y">>}}

\* search_records(domain, name, type_): name is the name records are listed under
SearchOps ==
    {[kind |-> "search", domain |-> RegDomain, name |-> n, type_ |-> t,
      content |-> None, ttl |-> None, prio |-> None, ip |-> NoIp, data |-> <<>>] :
        n \in {get_fqdn(<<"w">>, RegDomain)}, t \in {T_A, None}}

\* the payloads given to api: none, the one get_ssl gives (line 277), and some
\* with the keys of the credentials in them
Payloads ==
    {<<>>,
     authenticate_data(<<>>),
     << <<"apikey", <<"z">>>> >>,
     << <<"name", <<"w">>>>, <<"secretapikey", <<"z">>>>, <<"endpoint", <<"z">>>> >>,
     << <<"ttl", <<"int", "300">>>>, <<"apikey", <<"z">>>>, <<"prio", None>> >>}

\* api('/ssl/retrieve/' + domain, data)
ApiOps ==
    {[kind |-> "api", domain |-> RegDomain, name |-> <<>>, type_ |-> <<>>,
      content |-> <<>>, ttl |-> None, prio |-> None, ip |-> NoIp, data |-> d] :
        d \in Payloads}

Ops == AddrOps \cup UpdOps \cup AcmeOps \cup SearchOps \cup ApiOps

NoOp == [kind |-> "none", domain |-> <<>>, name |-> <<>>, type_ |-> <<>>,
         content |-> <<>>, ttl |-> None, prio |-> None, ip |-> NoIp, data |-> <<>>]

\* the records the store can start with: name, type
RecordKinds ==
    {<<get_fqdn(<<"w">>, RegDomain), T_A>>,
     <<get_fqdn(<<"w">>, RegDomain), T_AAAA>>,
     <<get_fqdn(<<"w">>, RegDomain), T_CNAME>>,
     <<get_fqdn(<<"w">>, RegDomain), T_ALIAS>>,
     <<get_fqdn(<<"w">>, RegDomain), T_TXT>>,
     <<RegDomain, T_A>>,
     <<get_fqdn(AcmeName, RegDomain), T_TXT>>}

InitStores ==
    UNION {{[i \in 1..n |-> [id |-> i, name |-> f[i][1], type |-> f[i][2],
                             content |-> <<"o">>, ttl |-> DefaultTtl]] :
               f \in [1..n -> RecordKinds]} : n \in 0..MaxRecords}

----------------------------------------------------------------------------
(* The normalised arguments of the running invocation *)

\* lines 230 and 248: domain = domain.lower()
op_domain(o) ==
    IF o.kind \in {"addr", "upd", "acme"} THEN Lower(o.domain) ELSE o.domain

\* line 231: '' if subdomain is None else subdomain.lower(); line 249: name.lower()
op_name(o) ==
    IF o.kind = "addr" THEN (IF o.name = None THEN <<>> ELSE Lower(o.name))
    ELSE Lower(o.name)

\* line 250 without upper(): the type as the caller gave it
op_type_keeps_case(o) == IF o.kind = "addr" THEN ip_type(o.ip) ELSE o.type_

\* line 232: 'A' if ip.version == 4 else 'AAAA'; line 250: type_.upper()
op_type(o) == IF o.kind = "addr" THEN ip_type(o.ip) ELSE Upper(o.type_)

\* lines 233 and 251
op_fqdn(o) == get_fqdn(op_name(o), op_domain(o))

\* the condition of the for loop's if, lines 236 and 256
op_match(o, record) ==
    IF o.kind = "addr" THEN a_aaaa_match(record, op_fqdn(o), op_type(o))
    ELSE update_match(record, op_fqdn(o), op_type(o))

\* the create call of the invocation, lines 262 and 271
op_create(o) ==
    IF o.kind = "addr" THEN create_a_aaaa_record(o.domain, o.ip, o.name)
    ELSE create_record(op_domain(o), op_name(o), op_type(o), o.content, o.ttl, o.prio)

----------------------------------------------------------------------------
(* State machine *)

Init ==
    /\ store \in InitStores
    /\ nextId = Len(store) + 1
    /\ pc = [c \in Clients |-> "idle"]
    /\ op = [c \in Clients |-> NoOp]
    /\ listed = [c \in Clients |-> <<>>]
    /\ idx = [c \in Clients |-> 1]
    /\ responses = [c \in Clients |-> <<>>]
    /\ calls = [c \in Clients |-> <<>>]
    /\ result = [c \in Clients |-> "none"]
    /\ ret = [c \in Clients |-> None]
    /\ before = [c \in Clients |-> store]
    /\ runs = [c \in Clients |-> 0]
    /\ default_data = [c \in Clients |-> <<>>]
    /\ payload = [c \in Clients |-> <<>>]
    /\ arg = <<>>
    /\ out = <<>>

\* the entry of the log of calls: the payload given to api, the request posted,
\* the answer it got, whether the method returned and what
CallEntry(kind, data, req, outcome, r) ==
    [kind |-> kind, data |-> data, url |-> req.url, body |-> req.body,
     outcome |-> outcome, returned |-> ~r.raised,
     value |-> IF r.raised THEN [status |-> "none"] ELSE r.value]

\* the invocation begins with the given arguments
Begin(c, o) ==
    /\ pc' = [pc EXCEPT ![c] = IF o.kind = "api" THEN "send" ELSE "list"]
    /\ op' = [op EXCEPT ![c] = o]
    /\ listed' = [listed EXCEPT ![c] = <<>>]
    /\ idx' = [idx EXCEPT ![c] = 1]
    /\ responses' = [responses EXCEPT ![c] = <<>>]
    /\ calls' = [calls EXCEPT ![c] = <<>>]
    /\ result' = [result EXCEPT ![c] = "running"]
    /\ ret' = [ret EXCEPT ![c] = None]
    /\ before' = [before EXCEPT ![c] = store]
    /\ runs' = [runs EXCEPT ![c] = @ + 1]
    /\ UNCHANGED <<store, nextId, default_data, payload, arg, out>>

\* a caller invokes an operation, or certbot runs the hook
Start(c) ==
    /\ pc[c] = "idle"
    /\ runs[c] < MaxRuns
    /\ \E o \in Ops : Begin(c, o)

\* the DDNS updater runs again with the same arguments
Again(c) ==
    /\ pc[c] = "done"
    /\ op[c].kind = "addr"
    /\ runs[c] < MaxRuns
    /\ Begin(c, op[c])

\* the invocation ends with an exception
Fail(c, exc) ==
    /\ pc' = [pc EXCEPT ![c] = "failed"]
    /\ result' = [result EXCEPT ![c] = exc]

\* the data parameter of api: the argument, or the default of line 113
call_data(c, call) == IF call.given THEN call.data ELSE default_data[c]

\* the call is posted and answered: the log and the registrar's store after it
Exchange(c, kind, call, req, outcome, response) ==
    /\ outcome = "SUCCESS" => Serves(store, req)
    /\ calls' = [calls EXCEPT ![c] =
                    Append(@, CallEntry(kind, call_data(c, call), req, outcome, response))]
    /\ default_data' = [default_data EXCEPT ![c] =
                           IF call.given THEN @ ELSE authenticate_data_arg(@)]
    /\ payload' = [payload EXCEPT ![c] =
                      IF call.given THEN authenticate_data_arg(call.data) ELSE @]
    /\ UNCHANGED <<arg, out>>
    /\ store' = StoreAfter(store, nextId, req, outcome)
    /\ nextId' = NextIdAfter(nextId, req, outcome)

\* api(target, data), called directly (lines 113-122) or by get_ssl (line 278)
Send(c) ==
    /\ pc[c] = "send"
    /\ \E outcome \in Outcomes :
        LET call == [target |-> <<"/ssl/retrieve/", op[c].domain>>, given |-> TRUE,
                     data |-> op[c].data]
            req == api_raw(call.target, call_data(c, call))
            response == api(HttpResponse(store, nextId, req, outcome))
        IN  /\ Exchange(c, "api", call, req, outcome, response)
            /\ IF response.raised
               THEN Fail(c, response.exc) /\ UNCHANGED ret
               ELSE /\ pc' = [pc EXCEPT ![c] = "done"]
                    /\ result' = [result EXCEPT ![c] = "returned"]
                    /\ ret' = [ret EXCEPT ![c] = response.value]
            /\ UNCHANGED <<op, listed, idx, responses, before, runs>>

\* get_records, lines 137-144, called at lines 158, 235 and 255, and the
\* ['records'] of what it returns
List(c) ==
    /\ pc[c] = "list"
    /\ \E outcome \in Outcomes :
        LET call == get_records_call(op_domain(op[c]))
            req == api_raw(call.target, call_data(c, call))
            response == get_records(api(HttpResponse(store, nextId, req, outcome)))
        IN  /\ Exchange(c, "list", call, req, outcome, response)
            /\ IF response.raised
               THEN Fail(c, response.exc) /\ UNCHANGED <<listed, idx, ret>>
               ELSE IF "records" \notin DOMAIN response.value
               THEN Fail(c, "KeyError") /\ UNCHANGED <<listed, idx, ret>>
               ELSE /\ listed' = [listed EXCEPT ![c] = response.value.records]
                    /\ idx' = [idx EXCEPT ![c] = 1]
                    /\ pc' = [pc EXCEPT ![c] =
                                 IF op[c].kind = "search" THEN "filter" ELSE "scan"]
                    /\ ret' = [ret EXCEPT ![c] =
                                  IF op[c].kind = "search" THEN response.value ELSE @]
                    /\ UNCHANGED result
            /\ UNCHANGED <<op, responses, before, runs>>

\* search_records, lines 161-179, after its get_records
Search(c) ==
    /\ pc[c] = "filter"
    /\ LET o == op[c]
           found == search_records(listed[c], o.name, o.type_, o.content,
                                   o.ttl, o.prio, None)
       IN  IF found.raised
           THEN Fail(c, found.exc) /\ UNCHANGED ret
           ELSE /\ pc' = [pc EXCEPT ![c] = "done"]
                /\ result' = [result EXCEPT ![c] = "returned"]
                /\ ret' = [ret EXCEPT ![c] = <<@, found.value>>]
    /\ UNCHANGED <<store, nextId, op, listed, idx, responses, calls, before, runs,
                   default_data, payload, arg, out>>

\* the for loop run from the end of the list: the last record that passes the if
Pending_last(c) ==
    LET P == {j \in idx[c]..Len(listed[c]) : op_match(op[c], listed[c][j])}
    IN  {j \in P : \A m \in P : m <= j}

\* the for loop restarted at the head of the list after each delete
Pending_from_start(c) == {j \in 1..Len(listed[c]) : op_match(op[c], listed[c][j])}

\* the positions of the for loop, from idx on, whose record passes the if
Pending(c) == {j \in idx[c]..Len(listed[c]) : op_match(op[c], listed[c][j])}

\* the for loop runs up to its next delete_record call, lines 235-238 and 255-259
Delete(c) ==
    /\ pc[c] = "scan"
    /\ Pending(c) # {}
    /\ \E outcome \in Outcomes :
        LET j == CHOOSE k \in Pending(c) : \A m \in Pending(c) : k <= m
            call == delete_record(op_domain(op[c]), listed[c][j].id)
            req == api_raw(call.target, call_data(c, call))
            response == api(HttpResponse(store, nextId, req, outcome))
        IN  /\ Exchange(c, "delete", call, req, outcome, response)
            /\ IF response.raised
               THEN Fail(c, response.exc) /\ UNCHANGED <<idx, responses>>
               ELSE IF op[c].kind = "addr"
               THEN /\ idx' = [idx EXCEPT ![c] = j + 1]
                    /\ UNCHANGED <<pc, result, responses>>
               ELSE /\ responses' = [responses EXCEPT ![c] = Append(@, response.value)]
                    /\ idx' = [idx EXCEPT ![c] = j + 1]
                    /\ pc' = [pc EXCEPT ![c] = "create"]
                    /\ UNCHANGED result
            /\ UNCHANGED <<op, listed, ret, before, runs>>

\* the for loop ends without another delete_record call
LoopEnd(c) ==
    /\ pc[c] = "scan"
    /\ Pending(c) = {}
    /\ idx' = [idx EXCEPT ![c] = Len(listed[c]) + 1]
    /\ pc' = [pc EXCEPT ![c] = "create"]
    /\ UNCHANGED <<store, nextId, op, listed, responses, calls, result, ret,
                   before, runs, default_data, payload, arg, out>>

\* create_record, lines 262-264 and 271-272
Create(c) ==
    /\ pc[c] = "create"
    /\ \E outcome \in Outcomes :
        LET call == op_create(op[c])
            req == api_raw(call.target, call_data(c, call))
            response == api(HttpResponse(store, nextId, req, outcome))
        IN  /\ Exchange(c, "create", call, req, outcome, response)
            /\ IF response.raised
               THEN Fail(c, response.exc) /\ UNCHANGED <<responses, ret>>
               ELSE IF op[c].kind = "addr"
               THEN /\ pc' = [pc EXCEPT ![c] = "done"]
                    /\ result' = [result EXCEPT ![c] = "exit0"]
                    /\ UNCHANGED <<responses, ret>>
               ELSE /\ responses' = [responses EXCEPT ![c] = Append(@, response.value)]
                    /\ ret' = [ret EXCEPT ![c] = Append(responses[c], response.value)]
                    /\ IF op[c].kind = "upd"
                       THEN /\ pc' = [pc EXCEPT ![c] = "done"]
                            /\ result' = [result EXCEPT ![c] = "returned"]
                       ELSE /\ pc' = [pc EXCEPT ![c] = "report"]
                            /\ UNCHANGED result
            /\ UNCHANGED <<op, listed, idx, before, runs>>

\* certbot_auth.py lines 40-41: responses[0] and responses[1] are printed
Report(c) ==
    /\ pc[c] = "report"
    /\ IF Len(ret[c]) < 2
       THEN Fail(c, "IndexError")
       ELSE pc' = [pc EXCEPT ![c] = "sleep"] /\ UNCHANGED result
    /\ UNCHANGED <<store, nextId, op, listed, idx, responses, calls, ret, before, runs,
                   default_data, payload, arg, out>>

\* certbot_auth.py lines 44-45: time.sleep(120), then the script ends
Sleep(c) ==
    /\ pc[c] = "sleep"
    /\ pc' = [pc EXCEPT ![c] = "done"]
    /\ result' = [result EXCEPT ![c] = "exit0"]
    /\ UNCHANGED <<store, nextId, op, listed, idx, responses, calls, ret, before, runs,
                   default_data, payload, arg, out>>

Step(c) ==
    \/ Start(c)
    \/ Again(c)
    \/ Send(c)
    \/ List(c)
    \/ Search(c)
    \/ Delete(c)
    \/ LoopEnd(c)
    \/ Create(c)
    \/ Report(c)
    \/ Sleep(c)

\* one client works on the domain
Next == Step(1)

Spec == Init /\ [][Next]_vars

----------------------------------------------------------------------------
(* Two clients, each its own process, work on the same address record *)

\* update_a_aaaa_record is invoked once by each client, for the same domain,
\* subdomain and address family as the other client
StartTwo(c) ==
    /\ pc[c] = "idle"
    /\ runs[c] = 0
    /\ \E o \in AddrOps :
        /\ \A d \in Clients :
              op[d].kind = "addr" =>
                  /\ op_domain(op[d]) = op_domain(o)
                  /\ op_fqdn(op[d]) = op_fqdn(o)
                  /\ ip_type(op[d].ip) = ip_type(o.ip)
        /\ Begin(c, o)

\* the registrar answered the last call of the client truly: SUCCESS, or ERROR
\* to the delete of a record that `records` no longer held
Answered(c, records) ==
    LET last == calls[c][Len(calls[c])]
    IN  \/ last.outcome = "SUCCESS"
        \/ /\ last.outcome = "ERROR"
           /\ last.kind = "delete"
           /\ ~HasId(records, last.url[5])

\* the calls of an invocation, with the transport and the registrar at work
ListTwo(c) == List(c) /\ Answered(c, store)'
DeleteTwo(c) == Delete(c) /\ Answered(c, store)'
CreateTwo(c) == Create(c) /\ Answered(c, store)'

StepTwo(c) ==
    \/ StartTwo(c)
    \/ ListTwo(c)
    \/ DeleteTwo(c)
    \/ LoopEnd(c)
    \/ CreateTwo(c)

\* the calls of the two clients reach the registrar in any order
NextTwo == StepTwo(1) \/ StepTwo(2)

SpecTwo == Init /\ [][NextTwo]_vars

----------------------------------------------------------------------------
(* Functions applied on their own: _get_fqdn and get_config *)

\* the longest label of a name given to _get_fqdn
MaxLabel == 2

\* no client has called the library and the domain has no record
Quiet ==
    /\ store = <<>>
    /\ nextId = 1
    /\ pc = [c \in Clients |-> "idle"]
    /\ op = [c \in Clients |-> NoOp]
    /\ listed = [c \in Clients |-> <<>>]
    /\ idx = [c \in Clients |-> 1]
    /\ responses = [c \in Clients |-> <<>>]
    /\ calls = [c \in Clients |-> <<>>]
    /\ result = [c \in Clients |-> "none"]
    /\ ret = [c \in Clients |-> None]
    /\ before = [c \in Clients |-> <<>>]
    /\ runs = [c \in Clients |-> 0]
    /\ default_data = [c \in Clients |-> <<>>]
    /\ payload = [c \in Clients |-> <<>>]

clientvars == <<store, nextId, pc, op, listed, idx, responses, calls, result, ret,
                before, runs, default_data, payload>>

\* the labels of up to MaxLabel letters
Labels(letters) == UNION {[1..n -> letters] : n \in 1..MaxLabel}

\* subdomains and domains in mixed case; '' is the root of the domain
FqdnNames == {<<>>} \cup Labels({"w", "W"})
FqdnDomains == {l \o <<".">> \o t : l \in Labels({"x", "X"}), t \in Labels({"y", "Y"})}

InitFqdn ==
    /\ Quiet
    /\ arg \in FqdnNames \X FqdnDomains
    /\ out = <<>>

\* _get_fqdn(subdomain, domain) is called
CallGetFqdn ==
    /\ out = <<>>
    /\ out' = <<get_fqdn(arg[1], arg[2])>>
    /\ UNCHANGED <<arg, clientvars>>

NextFqdn == CallGetFqdn

SpecFqdn == InitFqdn /\ [][NextFqdn]_vars

\* DEF_ENDPOINT, line 30
DEF_ENDPOINT == <<"p", "r", "o", "d">>

\* d.setdefault(k, v)
DictSetDefault(d, k, v) == IF HasKey(d, k) THEN d ELSE Append(d, <<k, v>>)

\* lines 42-44: the parameters of Porkbun.__init__ (lines 74-77) without default
config_required == <<"api_key", "secret_api_key">>

\* get_config, from what toml.load gave on
get_config(config) ==
    IF \E i \in 1..Len(config_required) : ~HasKey(config, config_required[i])
    THEN err
    ELSE LET tmp == DictSetDefault(<<>>, "endpoint", DEF_ENDPOINT)
         IN  Return(DictUpdate(config, tmp))

\* the tables a configuration file can hold: each key at most once, in any order
ConfigKeys == {"api_key", "secret_api_key", "endpoint"}
ConfigValues == {<<"u">>, <<"v">>}
ConfigFiles ==
    {f \in UNION {[1..n -> ConfigKeys \X ConfigValues] : n \in 0..Cardinality(ConfigKeys)} :
        \A i, j \in 1..Len(f) : f[i][1] = f[j][1] => i = j}

InitConfig ==
    /\ Quiet
    /\ arg \in ConfigFiles
    /\ out = <<>>

\* get_config(path) is called on the file
CallGetConfig ==
    /\ out = <<>>
    /\ out' = <<get_config(arg)>>
    /\ UNCHANGED <<arg, clientvars>>

NextConfig == CallGetConfig

SpecConfig == InitConfig /\ [][NextConfig]_vars

----------------------------------------------------------------------------
(* Properties *)

CallIdx(c) == 1..Len(calls[c])
CreateIssued(c) == \E i \in CallIdx(c) : calls[c][i].kind = "create"
DeleteCalled(c, id) ==
    \E i \in CallIdx(c) : calls[c][i].kind = "delete" /\ calls[c][i].url[5] = id
DeleteSucceeded(c, id) ==
    \E i \in CallIdx(c) : /\ calls[c][i].kind = "delete"
                          /\ calls[c][i].url[5] = id
                          /\ calls[c][i].outcome = "SUCCESS"
AllSucceeded(c) == \A i \in CallIdx(c) : calls[c][i].outcome = "SUCCESS"
DerivedType(ip) == IF ip.version = 4 THEN T_A ELSE T_AAAA
CredKeys == {"endpoint", "apikey", "secretapikey"}

\* C1: in update_record and update_a_aaaa_record, once a delete call has failed
\* (no answer, a status other than 200, a malformed body, or a body whose status
\* is "ERROR") no create call is issued later in the invocation.
C1_NoCreateAfterFailedDelete ==
    \A c \in Clients : \A i, j \in CallIdx(c) :
        (/\ op[c].kind \in {"upd", "acme", "addr"}
         /\ i < j
         /\ calls[c][i].kind = "delete"
         /\ calls[c][i].outcome # "SUCCESS")
        => calls[c][j].kind # "create"

\* C2 as stated: when update_a_aaaa_record issues the create, a delete call has
\* been issued for every listed record at the FQDN of type A, AAAA, ALIAS or
\* CNAME, whatever the address family of the new IP.
C2_PurgesBothFamilies ==
    \A c \in Clients :
        (op[c].kind = "addr" /\ CreateIssued(c)) =>
            \A j \in 1..Len(listed[c]) :
                (/\ listed[c][j].name = op_fqdn(op[c])
                 /\ listed[c][j].type \in {T_A, T_AAAA, T_ALIAS, T_CNAME})
                => DeleteCalled(c, listed[c][j].id)

\* C2 amended: when update_a_aaaa_record is about to issue the create, or has,
\* a delete call has been issued for exactly the listed records at the FQDN
\* whose type is the one derived from the new IP, ALIAS or CNAME; every delete
\* call precedes the create; the records whose delete succeeded are gone from
\* the store and the other listed records, those of the other address family
\* among them, are still in it.
C2_PurgesDerivedTypeAliasCname ==
    \A c \in Clients :
        (op[c].kind = "addr" /\ (pc[c] = "create" \/ CreateIssued(c))) =>
            /\ \A j \in 1..Len(listed[c]) :
                /\ DeleteCalled(c, listed[c][j].id) <=>
                      (/\ listed[c][j].name = op_fqdn(op[c])
                       /\ listed[c][j].type \in
                             {DerivedType(op[c].ip), T_ALIAS, T_CNAME})
                /\ HasId(store, listed[c][j].id) <=>
                      ~DeleteSucceeded(c, listed[c][j].id)
            /\ \A i, k \in CallIdx(c) :
                (calls[c][i].kind = "delete" /\ calls[c][k].kind = "create") => i < k

\* C2 witness: an IPv6 upsert over a listed CNAME and a listed A record at the
\* FQDN has completed with every call answered SUCCESS; the CNAME is gone and
\* the A record is still in the store.
C2_Witness ==
    /\ op[1].kind = "addr" /\ op[1].ip.version = 6 /\ pc[1] = "done"
    /\ AllSucceeded(1)
    /\ \E j, k \in 1..Len(listed[1]) :
        /\ listed[1][j].name = op_fqdn(op[1]) /\ listed[1][j].type = T_CNAME
        /\ listed[1][k].name = op_fqdn(op[1]) /\ listed[1][k].type = T_A
        /\ ~HasId(store, listed[1][j].id)
        /\ HasId(store, listed[1][k].id)

\* the positions in the store of the records at the FQDN of the invocation
\* with the type derived from its IP
AtTarget(c) ==
    {i \in 1..Len(store) : /\ store[i].name = op_fqdn(op[c])
                           /\ store[i].type = DerivedType(op[c].ip)}

\* C3: when update_a_aaaa_record has completed with every call of the
\* invocation answered SUCCESS and no other client at work, the store holds
\* exactly one record at the FQDN with the type derived from the IP, and its
\* content is the IP; so after a first and after a second call alike.
C3_ExactlyOneAddressRecord ==
    \A c \in Clients :
        (op[c].kind = "addr" /\ pc[c] = "done" /\ AllSucceeded(c)) =>
            /\ Cardinality(AtTarget(c)) = 1
            /\ \A i \in AtTarget(c) : store[i].content = op[c].ip.exploded

\* C3 witness: the second call with the same arguments has completed with every
\* call answered SUCCESS, after deleting several records.
C3_Witness ==
    /\ op[1].kind = "addr" /\ pc[1] = "done" /\ runs[1] = 2 /\ AllSucceeded(1)
    /\ Cardinality({i \in CallIdx(1) : calls[1][i].kind = "delete"}) >= 2
    /\ Cardinality(AtTarget(1)) = 1

\* update_record has returned: its create call was answered with a dict
UpdateReturned(c) ==
    /\ op[c].kind \in {"upd", "acme"}
    /\ \E i \in CallIdx(c) : calls[c][i].kind = "create" /\ calls[c][i].returned

\* no listed record is at the FQDN with the type of the invocation
NoMatchListed(c) ==
    \A j \in 1..Len(listed[c]) :
        ~(listed[c][j].name = op_fqdn(op[c]) /\ listed[c][j].type = Upper(op[c].type_))

\* the payload of name, type, content and the optional fields given
TargetPayload(o) ==
    << <<"name", Lower(o.name)>>, <<"type", Upper(o.type_)>>, <<"content", o.content>> >>
    \o (IF o.ttl = None THEN <<>> ELSE << <<"ttl", o.ttl>> >>)
    \o (IF o.prio = None THEN <<>> ELSE << <<"prio", o.prio>> >>)

\* C4, the calls: with no record at the target, update_record issues one list
\* call, no delete call and one create call with exactly the target's fields.
C4_CallsWhenNoMatch ==
    \A c \in Clients :
        (UpdateReturned(c) /\ NoMatchListed(c)) =>
            /\ Len(calls[c]) = 2
            /\ calls[c][1].kind = "list"
            /\ calls[c][2].kind = "create"
            /\ calls[c][2].data = TargetPayload(op[c])

\* C4: update_record returns two components, the delete response and the
\* create response; with no record at the target it has issued one list call,
\* no delete call and one create call with exactly the target's fields, and the
\* create response is the second component of what it returns.
C4_ReturnsDeletedAndCreated ==
    \A c \in Clients :
        (UpdateReturned(c) /\ NoMatchListed(c)) =>
            /\ C4_CallsWhenNoMatch
            /\ Len(ret[c]) = 2
            /\ ret[c][2] = calls[c][2].value

\* C5: the hook whose create call was answered SUCCESS does not end with an
\* error before the propagation wait, whether a prior TXT record existed or not.
C5_HookReachesWait ==
    \A c \in Clients :
        (/\ op[c].kind = "acme"
         /\ \E i \in CallIdx(c) : calls[c][i].kind = "create"
                                  /\ calls[c][i].outcome = "SUCCESS")
        => pc[c] # "failed"

\* C6: when the list call of an invocation was answered with status "ERROR",
\* get_records has failed, the list call is the only call of the invocation
\* and the store is as it was when the invocation began.
C6_ListErrorStopsInvocation ==
    \A c \in Clients :
        (/\ Len(calls[c]) >= 1
         /\ calls[c][1].kind = "list"
         /\ calls[c][1].outcome = "ERROR")
        => /\ Len(calls[c]) = 1
           /\ pc[c] = "failed"
           /\ result[c] = "SystemExit"
           /\ store = before[c]

\* C6 witness: the list call of an upsert was answered "ERROR" while the store
\* holds a record the upsert would have deleted.
C6_Witness ==
    /\ op[1].kind \in {"upd", "addr"}
    /\ Len(calls[1]) = 1 /\ calls[1][1].kind = "list" /\ calls[1][1].outcome = "ERROR"
    /\ pc[1] = "failed"
    /\ \E i \in 1..Len(store) : op_match(op[1], store[i])

\* C7: a create or delete call answered with status 200 and a body whose
\* status is "ERROR" ends the invocation in failure: it is the last call and
\* the invocation does not complete normally (in ddns mode, exit status 0).
C7_ErrorStatusFails ==
    \A c \in Clients : \A i \in CallIdx(c) :
        (calls[c][i].kind \in {"create", "delete"} /\ calls[c][i].outcome = "ERROR")
        => /\ i = Len(calls[c])
           /\ pc[c] = "failed"
           /\ result[c] # "exit0"

\* C8: the body of every request carries the configured endpoint, API key and
\* secret API key under their three keys, each once, and every other key of
\* the payload with the payload's value, and nothing else.
C8_CredentialsWin ==
    \A c \in Clients : \A i \in CallIdx(c) :
        LET data == calls[c][i].data
            body == calls[c][i].body
        IN  /\ DictKeys(body) = DictKeys(data) \cup CredKeys
            /\ Len(body) = Cardinality(DictKeys(body))
            /\ Get(body, "endpoint") = <<"string", Endpoint>>
            /\ Get(body, "apikey") = <<"string", ApiKey>>
            /\ Get(body, "secretapikey") = <<"string", SecretApiKey>>
            /\ \A k \in DictKeys(data) \ CredKeys :
                   Get(body, k) = JsonValue(Get(data, k))

\* C8 witness: a request was posted for a payload that gives its own apikey
\* beside another key.
C8_Witness ==
    \E i \in CallIdx(1) :
        /\ HasKey(calls[1][i].data, "apikey")
        /\ Get(calls[1][i].data, "apikey") # ApiKey
        /\ HasKey(calls[1][i].data, "ttl")
        /\ Get(calls[1][i].body, "apikey") = <<"string", ApiKey>>

\* C9: the payload create_record sends holds ttl (prio) exactly when a value
\* was given for it, then with that value and never null, and always holds
\* name, type and content.
C9_UnsetOptionalsOmitted ==
    \A c \in Clients : \A i \in CallIdx(c) :
        (op[c].kind \in {"upd", "acme"} /\ calls[c][i].kind = "create") =>
            LET body == calls[c][i].body
            IN  /\ HasKey(body, "ttl") <=> op[c].ttl # None
                /\ HasKey(body, "prio") <=> op[c].prio # None
                /\ HasKey(body, "ttl") => Get(body, "ttl") = <<"string", op[c].ttl>>
                /\ HasKey(body, "prio") => Get(body, "prio") = <<"string", op[c].prio>>
                /\ \A m \in 1..Len(body) : body[m][2][1] # "null"
                /\ {"name", "type", "content"} \subseteq DictKeys(body)

\* C9 witness: create_record was called with a prio and without a ttl.
C9_Witness ==
    /\ op[1].kind = "upd" /\ op[1].ttl = None /\ op[1].prio # None
    /\ \E i \in CallIdx(1) : /\ calls[1][i].kind = "create"
                             /\ HasKey(calls[1][i].body, "prio")
                             /\ ~HasKey(calls[1][i].body, "ttl")

\* C10: search_records, given a name and a type, returns exactly the listed
\* records with that name and that type, in list order, and never fails.
C10_SearchFilters ==
    \A c \in Clients :
        (/\ op[c].kind = "search"
         /\ Len(calls[c]) = 1 /\ calls[c][1].outcome = "SUCCESS"
         /\ pc[c] # "filter")
        => /\ result[c] = "returned"
           /\ ret[c][2] = SelectSeq(listed[c],
                              LAMBDA r : /\ r.name = op[c].name
                                         /\ (op[c].type_ = None \/ r.type = op[c].type_))

----------------------------------------------------------------------------
(* C11, C12: the functions applied on their own *)

\* C11: fqdn(name, domain) is lowercase(name) + "." + lowercase(domain) when
\* the name is not empty and lowercase(domain) when it is: all in lower case
\* whatever the case of the name and of the domain.
C11_FqdnLowercase ==
    out # <<>> =>
        out[1] = IF arg[1] # <<>>
              THEN Lower(arg[1]) \o <<".">> \o Lower(arg[2])
              ELSE Lower(arg[2])

\* C11, the part the code keeps: the name is lowercased, the domain is as given,
\* and there is no leading dot
C11_FqdnLowercasesName ==
    out # <<>> =>
        /\ out[1] = IF arg[1] # <<>>
                 THEN Lower(arg[1]) \o <<".">> \o arg[2]
                 ELSE arg[2]
        /\ Head(out[1]) # "."

\* C12: the endpoint of the file is returned when the file has one, the default
\* when it has none; api_key and secret_api_key are returned as they are.
C12_ConfigKeepsEndpoint ==
    (out # <<>> /\ ~out[1].raised) =>
        /\ Get(out[1].value, "endpoint") =
               IF HasKey(arg, "endpoint") THEN Get(arg, "endpoint") ELSE DEF_ENDPOINT
        /\ Get(out[1].value, "api_key") = Get(arg, "api_key")
        /\ Get(out[1].value, "secret_api_key") = Get(arg, "secret_api_key")

\* C12, what the code does: the endpoint returned is always the default
C12_ConfigEndpointIsDefault ==
    (out # <<>> /\ ~out[1].raised) =>
        /\ Get(out[1].value, "endpoint") = DEF_ENDPOINT
        /\ Get(out[1].value, "api_key") = Get(arg, "api_key")
        /\ Get(out[1].value, "secret_api_key") = Get(arg, "secret_api_key")

----------------------------------------------------------------------------
(* C13: two clients at once *)

\* both clients have completed update_a_aaaa_record for the same domain,
\* subdomain and address family with every call answered SUCCESS
BothCompleted ==
    /\ \A c \in Clients : op[c].kind = "addr" /\ pc[c] = "done" /\ AllSucceeded(c)
    /\ op_domain(op[1]) = op_domain(op[2])
    /\ op_fqdn(op[1]) = op_fqdn(op[2])
    /\ DerivedType(op[1].ip) = DerivedType(op[2].ip)

\* the id of the record the client's create call made
CreatedId(c) == calls[c][Len(calls[c])].value.id

\* the client's list call returned the record the other client had created
ListedCreatedOf(c, d) == \E j \in 1..Len(listed[c]) : listed[c][j].id = CreatedId(d)

\* C13 as stated: when two clients have run update_a_aaaa_record concurrently
\* for the same domain, subdomain and address family, in any interleaving of
\* their calls, and both completed successfully, the store holds at most one
\* record at the FQDN with the type.
C13_ConcurrentAtMostOne ==
    BothCompleted => Cardinality(AtTarget(1)) <= 1

\* C13 amended: in that case the store holds one or two records at the FQDN
\* with the type: the records the two clients created, less the one that the
\* other client listed (and so deleted); it holds two when neither client's
\* list call returned the other's record.
C13_ConcurrentOneOrTwo ==
    BothCompleted =>
        /\ Cardinality(AtTarget(1)) \in {1, 2}
        /\ \A i \in AtTarget(1) : store[i].id \in {CreatedId(1), CreatedId(2)}
        /\ Cardinality(AtTarget(1)) = 2 <=>
              (~ListedCreatedOf(1, 2) /\ ~ListedCreatedOf(2, 1))

\* C13 witness: both clients have completed with every call answered SUCCESS,
\* each listed before the other created, and the store holds two records at
\* the FQDN with the type.
C13_Witness ==
    /\ BothCompleted
    /\ ~ListedCreatedOf(1, 2) /\ ~ListedCreatedOf(2, 1)
    /\ Cardinality(AtTarget(1)) = 2

----------------------------------------------------------------------------
(* C14 - C17: the calls of update_record and update_a_aaaa_record *)

Upserts == {"upd", "acme", "addr"}
DeleteCalls(c) == {i \in CallIdx(c) : calls[c][i].kind = "delete"}

\* the positions in `records` of the records update_record's arguments name:
\* at the FQDN and of the type
Matching(c, records) ==
    {j \in 1..Len(records) : /\ records[j].name = op_fqdn(op[c])
                             /\ records[j].type = op_type(op[c])}

\* update_record has returned and every call it made was answered SUCCESS
UpdateSucceeded(c) ==
    /\ op[c].kind \in {"upd", "acme"}
    /\ CreateIssued(c)
    /\ AllSucceeded(c)

\* C14: update_record issues at most one delete call in an invocation, for the
\* first listed record at the FQDN and of the type; the later ones stay in the
\* store, so with k >= 1 such records before a call that succeeded there are k
\* after it.
C14_DeletesFirstMatchOnly ==
    \A c \in Clients :
        op[c].kind \in {"upd", "acme"} =>
            LET M == Matching(c, listed[c])
            IN  /\ Cardinality(DeleteCalls(c)) <= 1
                /\ \A i \in DeleteCalls(c) :
                      \E j \in M : /\ \A m \in M : j <= m
                                   /\ calls[c][i].url[5] = listed[c][j].id
                /\ \A j, m \in M :
                      j < m => \E i \in 1..Len(store) : store[i] = listed[c][m]
                /\ (UpdateSucceeded(c) /\ Matching(c, before[c]) # {}) =>
                      Cardinality(Matching(c, store)) =
                          Cardinality(Matching(c, before[c]))

\* C14 witness: update_record has succeeded over a store that held two records
\* at the FQDN and of the type; the first is gone, the second is still there
\* beside the created one.
C14_Witness ==
    /\ UpdateSucceeded(1)
    /\ Cardinality(Matching(1, before[1])) = 2
    /\ Cardinality(DeleteCalls(1)) = 1
    /\ Cardinality(Matching(1, store)) = 2

\* C15: in an invocation of update_record or update_a_aaaa_record the first
\* call is the one list call, the delete calls follow and a create call, if
\* any, is the last; no id is deleted twice; every call but the last has
\* returned, so nothing is called after a call that raised; and no request is
\* sent a second time.
C15_ListDeletesCreate ==
    \A c \in Clients :
        op[c].kind \in Upserts =>
            /\ \A i \in CallIdx(c) :
                /\ calls[c][i].kind = "list" <=> i = 1
                /\ calls[c][i].kind \in {"list", "delete", "create"}
                /\ calls[c][i].kind = "create" => i = Len(calls[c])
                /\ i < Len(calls[c]) => calls[c][i].returned
            /\ \A i, j \in DeleteCalls(c) :
                calls[c][i].url[5] = calls[c][j].url[5] => i = j
            /\ \A i, j \in CallIdx(c) : calls[c][i].url = calls[c][j].url => i = j
            /\ pc[c] \in {"done", "report", "sleep"} =>
                  calls[c][Len(calls[c])].kind = "create"
            /\ pc[c] = "failed" =>
                  (Len(calls[c]) > 0 /\ ~calls[c][Len(calls[c])].returned)
                  \/ result[c] \in {"IndexError", "KeyError"}

\* C15 witness: update_a_aaaa_record has completed with a list call, two delete
\* calls and the create call, in that order.
C15_Witness ==
    /\ op[1].kind = "addr" /\ pc[1] = "done"
    /\ Len(calls[1]) = 4
    /\ calls[1][1].kind = "list"
    /\ calls[1][2].kind = "delete" /\ calls[1][3].kind = "delete"
    /\ calls[1][4].kind = "create"

\* the FQDN in lower case, from the arguments as the caller gave them
LowerFqdn(o) ==
    IF o.name = None \/ o.name = <<>> THEN Lower(o.domain)
    ELSE Lower(o.name) \o <<".">> \o Lower(o.domain)

\* the types whose records the invocation deletes, in upper case
DeletedTypes(o) ==
    IF o.kind = "addr" THEN {DerivedType(o.ip), T_ALIAS, T_CNAME}
    ELSE {Upper(o.type_)}

\* the listed record a delete call names
ListedById(c, id) ==
    listed[c][CHOOSE j \in 1..Len(listed[c]) : listed[c][j].id = id]

\* C16: every call of update_record and update_a_aaaa_record has the domain in
\* lower case in its path; the create call has the name in lower case and the
\* type in upper case in its payload; and the listed records are compared with
\* the FQDN in lower case and the type in upper case: the records deleted are
\* at that FQDN and of those types, and once the loop is over a record at that
\* FQDN and of those types has been deleted (each one, for
\* update_a_aaaa_record), whatever the case of the arguments.
C16_LowerDomainNameUpperType ==
    \A c \in Clients :
        op[c].kind \in Upserts =>
            /\ \A i \in CallIdx(c) :
                /\ calls[c][i].url[3] = Lower(op[c].domain)
                /\ calls[c][i].kind = "create" =>
                    /\ Get(calls[c][i].data, "name") =
                          (IF op[c].name = None THEN <<>> ELSE Lower(op[c].name))
                    /\ Get(calls[c][i].data, "type") =
                          (IF op[c].kind = "addr" THEN DerivedType(op[c].ip)
                           ELSE Upper(op[c].type_))
                    /\ Get(calls[c][i].body, "name") =
                          <<"string", Get(calls[c][i].data, "name")>>
                    /\ Get(calls[c][i].body, "type") =
                          <<"string", Get(calls[c][i].data, "type")>>
                /\ calls[c][i].kind = "delete" =>
                    /\ HasId(listed[c], calls[c][i].url[5])
                    /\ ListedById(c, calls[c][i].url[5]).name = LowerFqdn(op[c])
                    /\ ListedById(c, calls[c][i].url[5]).type \in DeletedTypes(op[c])
            /\ (pc[c] = "create" \/ CreateIssued(c)) =>
                \A j \in 1..Len(listed[c]) :
                    (/\ listed[c][j].name = LowerFqdn(op[c])
                     /\ listed[c][j].type \in DeletedTypes(op[c]))
                    => IF op[c].kind = "addr"
                       THEN DeleteCalled(c, listed[c][j].id)
                       ELSE DeleteCalls(c) # {}

\* C16 witness: update_record called with a domain, a name and a type that are
\* not in their normal case has deleted the record they name and created one.
C16_Witness ==
    /\ op[1].kind = "upd" /\ pc[1] = "done"
    /\ op[1].domain # Lower(op[1].domain)
    /\ op[1].name # Lower(op[1].name)
    /\ op[1].type_ # Upper(op[1].type_)
    /\ DeleteCalls(1) # {} /\ CreateIssued(1)
    /\ AllSucceeded(1)

\* the types of the set the claim names: the address/alias conflict set for
\* update_a_aaaa_record, the type given for update_record
MatchedSet(o) ==
    IF o.kind = "addr" THEN {T_A, T_AAAA, T_ALIAS, T_CNAME} ELSE {Upper(o.type_)}

\* C17: update_record and update_a_aaaa_record delete no record whose name is
\* not the FQDN or whose type is outside the matched set, and no id that the
\* list call of the invocation did not return; the records of other types at
\* the FQDN and the records at other FQDNs are in the store as they were.
C17_OtherRecordsUnchanged ==
    \A c \in Clients :
        op[c].kind \in Upserts =>
            /\ \A i \in DeleteCalls(c) :
                \E j \in 1..Len(listed[c]) :
                    /\ listed[c][j].id = calls[c][i].url[5]
                    /\ listed[c][j].name = LowerFqdn(op[c])
                    /\ listed[c][j].type \in MatchedSet(op[c])
            /\ \A k \in 1..Len(before[c]) :
                (\/ before[c][k].name # LowerFqdn(op[c])
                 \/ before[c][k].type \notin MatchedSet(op[c]))
                => \E i \in 1..Len(store) : store[i] = before[c][k]

\* C17 witness: update_record has succeeded and deleted a record at the FQDN
\* while a record of another type at the FQDN is still in the store.
C17_Witness ==
    /\ UpdateSucceeded(1)
    /\ DeleteCalls(1) # {}
    /\ \E k \in 1..Len(before[1]) :
        /\ before[1][k].name = LowerFqdn(op[1])
        /\ before[1][k].type \notin MatchedSet(op[1])
        /\ \E i \in 1..Len(store) : store[i] = before[1][k]

----------------------------------------------------------------------------
(* C18: the payload and the default payload *)

\* the keys of a request body
BodyKeys(body) == {body[i][1] : i \in 1..Len(body)}

\* the calls made with a payload: create_record's and the caller's own
GivenCalls(c) == {i \in CallIdx(c) : calls[c][i].kind \in {"api", "create"}}

\* C18: api and api_raw leave the payload they are given as it was, and the
\* default payload empty: a call made without a payload sends the three
\* credential fields only, whatever was sent before, and a call made with one
\* sends them and the payload's own fields.
C18_PayloadsNotModified ==
    \A c \in Clients :
        /\ default_data[c] = <<>>
        /\ \A i \in CallIdx(c) :
            /\ i \notin GivenCalls(c) =>
                /\ calls[c][i].data = <<>>
                /\ BodyKeys(calls[c][i].body) = CredKeys
            /\ BodyKeys(calls[c][i].body) = CredKeys \cup DictKeys(calls[c][i].data)
        /\ \A i \in GivenCalls(c) :
            (\A j \in GivenCalls(c) : j <= i) => payload[c] = calls[c][i].data

\* C18 witness: the updater runs a second time in the same process; its list
\* call, made without a payload after the create call of the first run sent
\* name, type, content and ttl, carries the credentials only.
C18_Witness ==
    /\ op[1].kind = "addr" /\ runs[1] = 2
    /\ Len(calls[1]) >= 1
    /\ calls[1][1].kind = "list"
    /\ DictKeys(payload[1]) = {"name", "type", "content", "ttl"}
    /\ BodyKeys(calls[1][1].body) = CredKeys
    /\ default_data[1] = <<>>

----------------------------------------------------------------------------
====
